---- MODULE Spec2Model ----
(***************************************************************************)
(* RAGCraft: the index builder (build_db.py), the cleaner (clean_db.py)    *)
(* and the query application (rag_app.py) as state machines over the       *)
(* persistent directory chroma_db and the collection stored in it.         *)
(*                                                                         *)
(* The embedding provider, the generative model and the vector store are   *)
(* external: what they answer is an input of the step that calls them.     *)
(* Every call to one of them is appended to `log`, the trace of the        *)
(* current run.                                                            *)
(***************************************************************************)
EXTENDS Integers, Sequences, FiniteSets, TLC

\* ------------------------------------------------------------------ bounds
MaxChunks == 3        \* longest corpus (number of chunks) a build reads
MaxBatchSize == 2     \* BATCH_SIZE is tunable: 1..MaxBatchSize
MaxBuildRuns == 2     \* build runs in one behaviour
MaxStored == 4        \* largest collection a query run starts from
DistScale == 1        \* a distance is an integer number of 1/DistScale

\* -------------------------------------------------------- program constants
TOP_K == 3
DOCS_PATH == "docs/cat-facts.txt"
CorpusVersions == {"v1", "v2"}   \* contents the corpus file may have

VARIABLES
  dir,          \* PERSIST_DIR: "absent", "empty" or "populated"
  coll,         \* the documents of cat_facts_collection inside PERSIST_DIR
  uuidCount,    \* number of uuid4() values drawn so far (value i is id i)
  buildRuns,    \* build runs started so far
  batchSize,    \* BATCH_SIZE
  script,       \* the script run last: "none", "build", "clean" or "query"
  pc,           \* position of the running script, "idle" when none runs
  status,       \* how the current / last run stands
  force,        \* args.force of the build run
  choice,       \* answer to the (S)kip/(R)ebuild/(N)ew prompt, lower-cased
  embModel,     \* EMBEDDING_MODEL: "set" or "missing" (os.getenv gave None)
  langModel,    \* LANGUAGE_MODEL:  "set" or "missing"
  dataset,      \* chunks read by read_dataset
  idx,          \* loop variable of the batch loop
  resp,         \* last answer of ollama.embed
  embeddings,   \* last result of embed_batch / embed_query
  runIds,       \* ids drawn by the current build run
  prevColl,     \* the collection as it was when the current run started
  prevDir,      \* the directory as it was when the current run started
  query,        \* the stripped question of the query run
  results,      \* what collection.query returned
  retrieved,    \* what retrieve returned
  incomplete,   \* the directory holds what an unfinished build wrote
  log           \* calls made by the current run, in order

vars == <<dir, coll, uuidCount, buildRuns, batchSize, script, pc, status, force,
          choice, embModel, langModel, dataset, idx, resp, embeddings, runIds,
          prevColl, prevDir, query, results, retrieved, incomplete, log>>


\* ------------------------------------------------------------------ helpers
Min(a, b) == IF a < b THEN a ELSE b
Max(a, b) == IF a > b THEN a ELSE b

Call(op, n, m) == [op |-> op, n |-> n, m |-> m]
Ops(l) == {l[i].op : i \in 1..Len(l)}
Count(l, op) == Cardinality({i \in 1..Len(l) : l[i].op = op})
FirstIndex(l, op) ==
  IF op \in Ops(l) THEN CHOOSE i \in 1..Len(l) : l[i].op = op /\ \A k \in 1..(i-1) : l[k].op # op
  ELSE 0

NoResp == [shape |-> "none", n |-> 0]
NoEmb == [kind |-> "unset", n |-> 0]

\* ------------------------------------------------------------ build_db.py

\* Variant: looks for documents in the collection instead of directory entries.
db_already_built_ByCollection == coll # {}

\* db_already_built(): the directory exists and holds at least one entry.
db_already_built == dir = "populated"

\* str.lower() on the answers the prompt can be given.
Lower(c) == CASE c = "S" -> "s" [] c = "R" -> "r" [] c = "N" -> "n" [] OTHER -> c
RawChoices == {"s", "S", "r", "R", "n", "N", "", "x", " r"}

\* Variant: every answer other than "s" rebuilds.
Decision_ElseRebuilds(built, f, c) ==
  IF built
  THEN IF f THEN "rebuild"
       ELSE IF c = "s" THEN "skip"
       ELSE "rebuild"
  ELSE "build"

\* Variant: --force goes on without deleting the directory.
Decision_KeepsOldFiles(built, f, c) ==
  IF built
  THEN IF f THEN "build"
       ELSE IF c = "s" THEN "skip"
       ELSE IF c = "r" THEN "rebuild"
       ELSE "skip"
  ELSE "build"

\* main(), lines 94-109: what the run does about an existing directory.
\*   "build"   nothing is there, go on
\*   "rebuild" shutil.rmtree(PERSIST_DIR), then go on
\*   "skip"    return
Decision(built, f, c) ==
  IF built
  THEN IF f THEN "rebuild"
       ELSE IF c = "s" THEN "skip"
       ELSE IF c = "r" THEN "rebuild"
       ELSE "skip"
  ELSE "build"

\* Answers of ollama.embed(model, input=texts) to a batch of L texts.  n is the
\* number of vectors the answer carries (for "dict_data": the number of items
\* that have an "embedding" key).
CountedShapes == {"dict_embeddings", "dict_data", "list_records",
                  "obj_embeddings", "obj_data"}
SingleShapes == {"dict_embedding", "obj_embedding"}
FailShapes == {"exc", "dict_other", "obj_other"}
BatchResponses(L, model) ==
  IF model = "missing" THEN {[shape |-> "exc", n |-> 0]}
  ELSE {[shape |-> s, n |-> k] : s \in CountedShapes, k \in 0..(L + 1)}
       \cup {[shape |-> s, n |-> 1] : s \in SingleShapes}
       \cup {[shape |-> s, n |-> 0] : s \in FailShapes \cup {"dict_embeddings_null"}}

\* embed_batch(texts): the vectors found in the answer, None, or an exception.
embed_batch(r) ==
  CASE r.shape = "exc"                  -> [kind |-> "raise", n |-> 0]
    [] r.shape = "dict_embeddings"      -> [kind |-> "vecs", n |-> r.n]
    [] r.shape = "dict_embeddings_null" -> [kind |-> "none", n |-> 0]
    [] r.shape = "dict_embedding"       -> [kind |-> "vecs", n |-> 1]
    [] r.shape = "dict_data"            -> [kind |-> "vecs", n |-> r.n]
    [] r.shape = "list_records"         -> [kind |-> "vecs", n |-> r.n]
    [] r.shape = "obj_embeddings"       -> [kind |-> "vecs", n |-> r.n]
    [] r.shape = "obj_embedding"        -> [kind |-> "vecs", n |-> 1]
    [] r.shape = "obj_data"             -> [kind |-> "vecs", n |-> r.n]
    [] OTHER                            -> [kind |-> "raise", n |-> 0]

\* line 121: batch = dataset[idx: idx + BATCH_SIZE]
BatchOf(ds, i, bs) == SubSeq(ds, i + 1, Min(i + bs, Len(ds)))

\* Variant: the position within the batch, without idx.
ChunkIndex_InBatch(i, j) == j - 1

\* line 124: the chunk_index of the j-th text (j from 1) of the batch at i
ChunkIndex(i, j) == i + (j - 1)

\* Variant: the length comparison is missing.
Unexpected_NoneOnly(emb, batch) == emb.kind = "none"

\* line 129: embeddings is None or len(embeddings) != len(batch)
Unexpected(emb, batch) == emb.kind = "none" \/ emb.n # Len(batch)

\* line 141: idx += len(batch)
NextIdx(i, batch) == i + Len(batch)

\* collection.add(documents, embeddings, metadatas, ids): document j of the call
\* gets text j, vector j, metadata j and id j.  Vector j of the k-th embedding
\* call of the run is <<k, j>>.
AddedDocs(batch, i, k, firstId) ==
  {[id |-> firstId + j, text |-> batch[j], emb |-> <<k, j>>,
    meta |-> [source |-> DOCS_PATH, chunk_index |-> ChunkIndex(i, j)]] :
     j \in 1..Len(batch)}

\* What os.getenv can give for a model name.
Env == {"set", "missing"}

\* A script starts: nothing of an earlier run is left in its variables.
StartRun ==
  /\ prevColl' = coll
  /\ prevDir' = dir
  /\ resp' = NoResp
  /\ embeddings' = NoEmb
  /\ dataset' = <<>>
  /\ idx' = 0
  /\ runIds' = {}
  /\ query' = ""
  /\ results' = <<>>
  /\ retrieved' = <<>>

\* main(), lines 89-109.
BuildStart(f, raw, em) ==
  /\ pc = "idle"
  /\ buildRuns < MaxBuildRuns
  /\ StartRun
  /\ script' = "build"
  /\ buildRuns' = buildRuns + 1
  /\ force' = f
  /\ embModel' = em
  /\ choice' = IF db_already_built /\ ~f THEN Lower(raw) ELSE "unasked"
  /\ LET d == Decision(db_already_built, f, Lower(raw)) IN
       /\ dir' = IF d = "rebuild" THEN "absent" ELSE dir
       /\ coll' = IF d = "rebuild" THEN {} ELSE coll
       /\ incomplete' = IF d = "rebuild" THEN FALSE ELSE incomplete
       /\ log' = IF d = "rebuild" THEN <<Call("rmtree", 0, 0)>> ELSE <<>>
       /\ pc' = IF d = "skip" THEN "idle" ELSE "b_read"
       /\ status' = IF d = "skip" THEN "skipped" ELSE "building"
  /\ UNCHANGED <<uuidCount, batchSize, langModel>>

\* main(), lines 111-119: read_dataset, then ensure_client_and_collection.
BuildRead(ver, n, readable) ==
  /\ pc = "b_read"
  /\ IF readable
     THEN /\ dataset' = [p \in 1..n |-> <<ver, p>>]
          /\ dir' = "populated"
          /\ incomplete' = TRUE
          /\ log' = Append(log, Call("open", 0, 0))
          /\ pc' = "b_loop"
          /\ status' = "building"
     ELSE /\ pc' = "idle"
          /\ status' = "aborted"
          /\ UNCHANGED <<dataset, dir, incomplete, log>>
  /\ idx' = 0
  /\ UNCHANGED <<coll, uuidCount, buildRuns, batchSize, script, force, choice, embModel,
                 langModel, resp, embeddings, runIds, prevColl, prevDir,
                 query, results, retrieved>>

\* main(), lines 120-142: one pass of the while loop.
BuildBatch(r) ==
  /\ pc = "b_loop"
  /\ idx < Len(dataset)
  /\ LET batch == BatchOf(dataset, idx, batchSize)
         emb == embed_batch(r)
         k == Count(log, "embed") + 1
         embedded == Append(log, Call("embed", Len(batch), 0))
     IN
       /\ r \in BatchResponses(Len(batch), embModel)
       /\ uuidCount' = uuidCount + Len(batch)
       /\ runIds' = runIds \cup {uuidCount + j : j \in 1..Len(batch)}
       /\ resp' = r
       /\ embeddings' = emb
       /\ IF emb.kind = "raise" \/ Unexpected(emb, batch)
          THEN /\ log' = embedded
               /\ pc' = "idle"
               /\ status' = "aborted"
               /\ UNCHANGED <<coll, idx>>
          ELSE /\ log' = Append(embedded, Call("add", Len(batch), emb.n))
               /\ coll' = coll \cup AddedDocs(batch, idx, k, uuidCount)
               /\ idx' = NextIdx(idx, batch)
               /\ UNCHANGED <<pc, status>>
  /\ UNCHANGED <<dir, buildRuns, batchSize, script, force, choice, embModel,
                 langModel, dataset, prevColl, prevDir, query, results,
                 retrieved, incomplete>>

\* main(), lines 146-153: the loop is over; the directory is listed and the
\* collections are listed through a second client.
BuildFinish ==
  /\ pc = "b_loop"
  /\ ~(idx < Len(dataset))
  /\ log' = Append(log, Call("list_collections", 0, 0))
  /\ pc' = "idle"
  /\ status' = "finished"
  /\ incomplete' = FALSE
  /\ UNCHANGED <<dir, coll, uuidCount, buildRuns, batchSize, script, force, choice,
                 embModel, langModel, dataset, idx, resp, embeddings, runIds,
                 prevColl, prevDir, query, results, retrieved>>

\* ------------------------------------------------------------ clean_db.py
CleanDb ==
  /\ pc = "idle"
  /\ StartRun
  /\ IF dir # "absent"
     THEN /\ dir' = "absent"
          /\ coll' = {}
          /\ incomplete' = FALSE
          /\ log' = <<Call("rmtree", 0, 0)>>
     ELSE /\ log' = <<>>
          /\ UNCHANGED <<dir, coll, incomplete>>
  /\ script' = "clean"
  /\ status' = "cleaned"
  /\ force' = FALSE
  /\ choice' = "unasked"
  /\ UNCHANGED <<pc, uuidCount, buildRuns, batchSize, embModel, langModel>>

\* -------------------------------------------------------------- rag_app.py

\* str.strip() on the questions the prompt can be given.
Strip(q) == CASE q = "  " -> "" [] q = " cats? " -> "cats?" [] OTHER -> q
RawQueries == {"", "  ", "cats?", " cats? "}

\* Answers of ollama.embed(model, input=query).  n is the number of vectors (or
\* of "data" items) the answer carries.
QueryShapes == {"dict_embedding", "dict_embedding_null", "dict_embeddings",
                "dict_data", "dict_data_nokey", "dict_other", "list_records",
                "obj_embedding", "obj_embeddings", "obj_data", "obj_other"}
QueryCounted == {"dict_embeddings", "dict_data", "dict_data_nokey",
                 "obj_embeddings", "obj_data"}
QueryResponses(model) ==
  IF model = "missing" THEN {[shape |-> "exc", n |-> 0]}
  ELSE {[shape |-> s, n |-> k] : s \in QueryCounted, k \in 0..1}
       \cup {[shape |-> s, n |-> 0] : s \in QueryShapes \ QueryCounted}
       \cup {[shape |-> "exc", n |-> 0]}

\* embed_query(query): one vector, None, or an exception.
embed_query(r) ==
  CASE r.shape = "exc"                 -> [kind |-> "raise", n |-> 0]
    [] r.shape = "dict_embedding"      -> [kind |-> "vec", n |-> 1]
    [] r.shape = "dict_embedding_null" -> [kind |-> "none", n |-> 0]
    [] r.shape = "dict_embeddings"     ->
         IF r.n > 0 THEN [kind |-> "vec", n |-> 1] ELSE [kind |-> "raise", n |-> 0]
    [] r.shape = "dict_data"           ->
         IF r.n > 0 THEN [kind |-> "vec", n |-> 1] ELSE [kind |-> "raise", n |-> 0]
    [] r.shape = "dict_data_nokey"     ->
         IF r.n > 0 THEN [kind |-> "none", n |-> 0] ELSE [kind |-> "raise", n |-> 0]
    [] r.shape = "obj_embedding"       -> [kind |-> "vec", n |-> 1]
    [] r.shape = "obj_embeddings"      ->
         IF r.n > 0 THEN [kind |-> "vec", n |-> 1] ELSE [kind |-> "raise", n |-> 0]
    [] r.shape = "obj_data"            ->
         IF r.n > 0 THEN [kind |-> "vec", n |-> 1] ELSE [kind |-> "raise", n |-> 0]
    [] OTHER                           -> [kind |-> "raise", n |-> 0]

\* Distances are integers, in units of 1/DistScale: DistScale is distance 1.0.
\* The store may report anything from below 0 to above 2.
DistSet == (-1)..(2 * DistScale + 1)

\* collection.query(query_embeddings, n_results, include): at most n_results
\* documents of the collection, each once, nearest first.  Which documents are
\* nearest depends on the query: the answers tried are the runs of documents
\* that follow each other (cyclically) in chunk order, from any first document,
\* with any distances that do not decrease.
DocAt(c, p) == CHOOSE d \in c : d.meta.chunk_index = p
StoreAnswers(c, n) ==
  LET size == Cardinality(c)
      m == Min(n, size)
  IN {[i \in 1..m |-> [doc |-> DocAt(c, (o + i - 1) % size), distance |-> ds[i]]] :
        o \in 0..(size - 1),
        ds \in {x \in [1..m -> DistSet] : \A i \in 1..(m - 1) : x[i] <= x[i + 1]}}
     \cup (IF size = 0 THEN {<<>>} ELSE {})

\* Variant: the clamp is missing.
Similarity_Unclamped(d) == DistScale - d

\* retrieve(), lines 98-101: 1.0 - distance, clamped to [-1.0, 1.0].
Similarity(d) == Max(-DistScale, Min(DistScale, DistScale - d))

\* retrieve(), lines 82-108: one item per document of the answer, in its order.
Retrieved(res) ==
  [i \in 1..Len(res) |->
     [chunk |-> res[i].doc.text, distance |-> res[i].distance,
      similarity |-> Similarity(res[i].distance), metadata |-> res[i].doc.meta]]

\* retrieve(), lines 71-74: what an embed_query result that is not an exception
\* leads to: "empty" returns [] at once, "query" goes on to the store.
AfterEmbedding(emb) == IF emb.kind = "none" THEN "empty" ELSE "query"

\* Variant: the test for an empty retrieval is missing.
NothingRetrieved_Never(r) == FALSE

\* main(), lines 171-174: if not retrieved
NothingRetrieved(r) == Len(r) = 0

\* main(), lines 154-164.
QueryStart(em, lm) ==
  /\ pc = "idle"
  /\ StartRun
  /\ script' = "query"
  /\ embModel' = em
  /\ langModel' = lm
  /\ force' = FALSE
  /\ choice' = "unasked"
  /\ IF dir = "absent"
     THEN /\ pc' = "idle"
          /\ status' = "no_db"
          /\ log' = <<>>
          /\ UNCHANGED dir
     ELSE /\ pc' = "q_input"
          /\ status' = "asking"
          /\ log' = <<Call("open", 0, 0)>>
          /\ dir' = "populated"
  /\ UNCHANGED <<coll, uuidCount, buildRuns, batchSize, incomplete>>

\* main(), lines 165-168.
QueryInput(raw) ==
  /\ pc = "q_input"
  /\ query' = Strip(raw)
  /\ IF Strip(raw) = ""
     THEN pc' = "idle" /\ status' = "empty_query"
     ELSE pc' = "q_retrieve" /\ status' = "retrieving"
  /\ UNCHANGED <<dir, coll, uuidCount, buildRuns, batchSize, script, force, choice,
                 embModel, langModel, dataset, idx, resp, embeddings, runIds,
                 prevColl, prevDir, results, retrieved, incomplete, log>>

\* main(), line 170: retrieve(collection, query, top_n=TOP_K).
QueryRetrieve(r) ==
  /\ pc = "q_retrieve"
  /\ r \in QueryResponses(embModel)
  /\ LET emb == embed_query(r)
         embedded == Append(log, Call("embed", 1, 0))
     IN
       /\ resp' = r
       /\ embeddings' = emb
       /\ IF emb.kind = "raise"
          THEN /\ log' = embedded
               /\ pc' = "idle"
               /\ status' = "aborted"
               /\ UNCHANGED <<results, retrieved>>
          ELSE IF AfterEmbedding(emb) = "empty"
          THEN /\ log' = embedded
               /\ pc' = "q_answer"
               /\ status' = "retrieved"
               /\ UNCHANGED <<results, retrieved>>
          ELSE /\ \E res \in StoreAnswers(coll, TOP_K) :
                    /\ results' = res
                    /\ retrieved' = Retrieved(res)
               /\ log' = Append(embedded, Call("query", TOP_K, 0))
               /\ pc' = "q_answer"
               /\ status' = "retrieved"
  /\ UNCHANGED <<dir, coll, uuidCount, buildRuns, batchSize, script, force, choice,
                 embModel, langModel, dataset, idx, runIds, prevColl, prevDir,
                 query, incomplete>>

\* main(), lines 171-185: the sentinel, or build_instruction_prompt and
\* chat_with_model (which raises when ollama.chat does).
QueryAnswer(chatOk) ==
  /\ pc = "q_answer"
  /\ pc' = "idle"
  /\ IF NothingRetrieved(retrieved)
     THEN /\ status' = "dont_know"
          /\ UNCHANGED log
     ELSE /\ log' = log \o <<Call("prompt", Len(retrieved), 0), Call("chat", 0, 0)>>
          /\ status' = IF chatOk /\ langModel = "set" THEN "answered" ELSE "aborted"
  /\ UNCHANGED <<dir, coll, uuidCount, buildRuns, batchSize, script, force, choice,
                 embModel, langModel, dataset, idx, resp, embeddings, runIds,
                 prevColl, prevDir, query, results, retrieved, incomplete>>

\* ----------------------------------------------------------- specification
Init ==
  /\ dir \in {"absent", "empty"}
  /\ coll = {}
  /\ uuidCount = 0
  /\ buildRuns = 0
  /\ batchSize \in 1..MaxBatchSize
  /\ script = "none"
  /\ incomplete = FALSE
  /\ pc = "idle"
  /\ status = "none"
  /\ force = FALSE
  /\ choice = "unasked"
  /\ embModel = "set"
  /\ langModel = "set"
  /\ dataset = <<>>
  /\ idx = 0
  /\ resp = NoResp
  /\ embeddings = NoEmb
  /\ runIds = {}
  /\ prevColl = {}
  /\ prevDir = dir
  /\ query = ""
  /\ results = <<>>
  /\ retrieved = <<>>
  /\ log = <<>>

Next ==
  \/ \E f \in BOOLEAN, raw \in RawChoices, em \in Env : BuildStart(f, raw, em)
  \/ \E ver \in CorpusVersions, n \in 0..MaxChunks, readable \in BOOLEAN :
       BuildRead(ver, n, readable)
  \/ \E r \in BatchResponses(MaxBatchSize, "set") : BuildBatch(r)
  \/ BuildFinish
  \/ CleanDb

Spec == Init /\ [][Next]_vars

\* The collection a finished build of an n-chunk corpus leaves, batch by batch.
BuiltCollection(ver, n, bs) ==
  LET ds == [p \in 1..n |-> <<ver, p>>] IN
    UNION {AddedDocs(BatchOf(ds, i, bs), i, (i \div bs) + 1, i) :
             i \in {i \in 0..(n - 1) : i % bs = 0}}

\* The query application alone, started on what the other scripts can leave:
\* no directory, an empty one, or a built collection.
QueryInit ==
  /\ batchSize \in 1..MaxBatchSize
  /\ \E n \in 0..MaxStored :
       /\ coll = BuiltCollection("v1", n, batchSize)
       /\ uuidCount = n
  /\ dir \in IF coll = {} THEN {"absent", "empty", "populated"} ELSE {"populated"}
  /\ buildRuns = 0
  /\ script = "none"
  /\ incomplete = FALSE
  /\ pc = "idle"
  /\ status = "none"
  /\ force = FALSE
  /\ choice = "unasked"
  /\ embModel = "set"
  /\ langModel = "set"
  /\ dataset = <<>>
  /\ idx = 0
  /\ resp = NoResp
  /\ embeddings = NoEmb
  /\ runIds = {}
  /\ prevColl = coll
  /\ prevDir = dir
  /\ query = ""
  /\ results = <<>>
  /\ retrieved = <<>>
  /\ log = <<>>

QueryNext ==
  \/ \E em \in Env, lm \in Env : QueryStart(em, lm)
  \/ \E raw \in RawQueries : QueryInput(raw)
  \/ \E r \in QueryResponses("set") : QueryRetrieve(r)
  \/ \E chatOk \in BOOLEAN : QueryAnswer(chatOk)

QuerySpec == QueryInit /\ [][QueryNext]_vars

\* ------------------------------------------------------------------ claims
StoreOps == {"rmtree", "open", "add", "query", "list_collections"}
ExternalOps == StoreOps \cup {"embed", "chat"}
Ids(c) == {d.id : d \in c}
Ceil(n, b) == (n + b - 1) \div b
LastOp(l) == IF Len(l) = 0 THEN "nothing" ELSE l[Len(l)].op
\* n of the last call to the embedding provider in l
LastEmbedN(l) ==
  LET at == {i \in 1..Len(l) : l[i].op = "embed"} IN
    IF at = {} THEN 0 ELSE l[CHOOSE i \in at : \A k \in at : k <= i].n

\* C1: a build run that finds the directory populated, is not forced and is not
\* answered with "r" is a skip: it ends at once, has made no call at all (no
\* deletion, no embedding, no upsert), and the collection and its document
\* count are what they were before the run.
C1_SkipIsNoOp ==
  (script = "build" /\ prevDir = "populated" /\ ~force /\ choice # "r") =>
     /\ pc = "idle"
     /\ status = "skipped"
     /\ log = <<>>
     /\ dir = prevDir
     /\ coll = prevColl
     /\ Cardinality(coll) = Cardinality(prevColl)

C1_Witness ==
  /\ script = "build" /\ status = "skipped" /\ buildRuns = 2
  /\ choice = "n" /\ ~force
  /\ Cardinality(prevColl) = 2 /\ Cardinality(coll) = 2

\* C2: in a rebuild (--force, or the answer "r"), whatever the directory held
\* before, the collection never holds a document of an earlier run from the
\* first upsert on; a populated directory is deleted before the first upsert;
\* and when the run finishes over a corpus of N chunks the collection holds
\* exactly N documents, each one a chunk of this corpus.
C2_RebuildLeavesOnlyCurrentCorpus ==
  (script = "build" /\ (force \/ choice = "r")) =>
     /\ ("add" \in Ops(log) /\ prevDir = "populated") =>
          /\ "rmtree" \in Ops(log)
          /\ FirstIndex(log, "rmtree") < FirstIndex(log, "add")
     /\ "add" \in Ops(log) => (Ids(coll) \subseteq runIds /\ Ids(coll) \cap Ids(prevColl) = {})
     /\ status = "finished" =>
          /\ Cardinality(coll) = Len(dataset)
          /\ {d.text : d \in coll} = {dataset[p] : p \in 1..Len(dataset)}
          /\ Ids(coll) \subseteq runIds

C2_Witness ==
  /\ script = "build" /\ force /\ status = "finished"
  /\ Cardinality(prevColl) = 3 /\ Len(dataset) = 2 /\ Cardinality(coll) = 2
  /\ \E d \in prevColl : d.text[1] = "v1"
  /\ \A d \in coll : d.text[1] = "v2"

C2_WitnessPartial ==
  /\ script = "build" /\ force /\ status = "finished"
  /\ Len(dataset) = 3 /\ Cardinality(prevColl) = 1 /\ Cardinality(coll) = 3

\* C3 (as claimed): when the query embedding fails (the provider raises or the
\* answer has no recognized shape) or gives nothing, retrieve returns an empty
\* sequence, raises nothing, and the store is not queried.
C3_EmbeddingFailureDegrades ==
  (script = "query" /\ embeddings.kind \in {"raise", "none"}) =>
     /\ status # "aborted"
     /\ retrieved = <<>>
     /\ "query" \notin Ops(log)

\* C4: in a build, when the embedding call raises, gives None, or gives a number
\* of vectors other than the number of texts of the batch, the run is over at
\* once: that embedding call is the last call of the run, the batch was not
\* upserted, the earlier batches are still in the collection and the directory
\* is still there.  No upsert is ever made with lists of different lengths.
C4_FailFast ==
  script = "build" =>
     /\ \A i \in 1..Len(log) : log[i].op = "add" => log[i].n = log[i].m
     /\ (embeddings.kind \in {"raise", "none"}
          \/ (embeddings.kind = "vecs" /\ embeddings.n # LastEmbedN(log))) =>
          /\ pc = "idle"
          /\ status = "aborted"
          /\ LastOp(log) = "embed"
          /\ Count(log, "add") = Count(log, "embed") - 1
          /\ Cardinality(coll) = idx
          /\ idx = batchSize * Count(log, "add")
          /\ dir = "populated"

C4_Witness ==
  /\ script = "build" /\ status = "aborted"
  /\ embeddings.kind = "vecs" /\ embeddings.n = 2 /\ LastEmbedN(log) = 1
  /\ Cardinality(coll) = 2 /\ Len(dataset) = 3

C4_WitnessRaise ==
  /\ script = "build" /\ status = "aborted"
  /\ embeddings.kind = "raise" /\ resp.shape = "dict_other"
  /\ Cardinality(coll) = 1 /\ Len(dataset) = 3 /\ Count(log, "embed") = 2

\* C5: in a query run the generative service is called at most once, only with
\* a non-empty retrieval, and only after the store query and the instruction
\* builder; when retrieval returned an empty sequence the run ends with the
\* "don't know" sentinel and neither the instruction builder nor the generative
\* service was called.
C5_ShortCircuit ==
  script = "query" =>
     /\ Count(log, "chat") <= 1
     /\ Count(log, "prompt") <= 1
     /\ "prompt" \in Ops(log) => retrieved # <<>>
     /\ "chat" \in Ops(log) =>
          /\ retrieved # <<>>
          /\ "query" \in Ops(log)
          /\ FirstIndex(log, "query") < FirstIndex(log, "prompt")
          /\ FirstIndex(log, "prompt") < FirstIndex(log, "chat")
     /\ (pc = "idle" /\ embeddings.kind \in {"vec", "none"} /\ retrieved = <<>>) =>
          /\ status = "dont_know"
          /\ Ops(log) \cap {"prompt", "chat"} = {}
     /\ status = "dont_know" => retrieved = <<>>

C5_Witness ==
  /\ script = "query" /\ status = "dont_know"
  /\ LastOp(log) = "query" /\ coll = {} /\ embeddings.kind = "vec"

C5_WitnessChat ==
  /\ script = "query" /\ status = "answered"
  /\ Len(retrieved) = 2 /\ LastOp(log) = "chat"

\* C6 (as claimed): when the embedding model name (or, in the query run, the
\* generation model name) is missing, the run makes no embedding, store or
\* generation call.
C6_MissingConfigFirst ==
  ((script = "build" /\ embModel = "missing")
    \/ (script = "query" /\ (embModel = "missing" \/ langModel = "missing"))) =>
     Ops(log) \cap ExternalOps = {}

\* C7 (as claimed): a query run that ends on an empty question has called no
\* external service at any point.
C7_EmptyQuestionCallsNothing ==
  (script = "query" /\ status = "empty_query") => Ops(log) \cap ExternalOps = {}

\* C8: retrieve gives one item per document of the store's answer, in the
\* answer's order (nearest first), at most TOP_K of them; each keeps the raw
\* distance d and the document's text and metadata, and its similarity is 1
\* for d <= 0, -1 for d >= 2, and 1 - d in between.
C8_SimilarityConversion ==
  (script = "query" /\ "query" \in Ops(log)) =>
     /\ Len(retrieved) = Len(results)
     /\ Len(retrieved) <= TOP_K
     /\ \A i \in 1..Len(retrieved) :
          /\ retrieved[i].distance = results[i].distance
          /\ retrieved[i].chunk = results[i].doc.text
          /\ retrieved[i].metadata = results[i].doc.meta
          /\ retrieved[i].similarity =
               (IF results[i].distance <= 0 THEN DistScale
                ELSE IF results[i].distance >= 2 * DistScale THEN -DistScale
                ELSE DistScale - results[i].distance)
     /\ \A i \in 1..(Len(retrieved) - 1) :
          retrieved[i].distance <= retrieved[i + 1].distance

C8_Witness ==
  /\ script = "query" /\ "query" \in Ops(log)
  /\ Cardinality(coll) > TOP_K /\ Len(retrieved) = TOP_K
  /\ retrieved[1].distance < 0 /\ retrieved[1].similarity = DistScale
  /\ retrieved[2].distance = DistScale /\ retrieved[2].similarity = 0
  /\ retrieved[3].distance > 2 * DistScale /\ retrieved[3].similarity = -DistScale
  /\ retrieved[1].metadata.chunk_index = 3

\* C9: a build that aborts after opening the collection leaves the directory
\* populated and the collection incomplete; a later run that is not forced and
\* not answered with "r" is a skip that leaves it incomplete; and a run that
\* found the directory populated builds only when forced or answered with "r".
C9_InterruptedBuildLooksFinished ==
  script = "build" =>
     /\ (status = "aborted" /\ "open" \in Ops(log)) => (dir = "populated" /\ incomplete)
     /\ (prevDir = "populated" /\ status # "skipped") => (force \/ choice = "r")
     /\ (status = "skipped" /\ incomplete) =>
          (dir = "populated" /\ coll = prevColl /\ ~force /\ choice # "r")
     /\ incomplete => dir = "populated"

C9_Witness ==
  /\ script = "build" /\ status = "skipped" /\ incomplete
  /\ coll = {} /\ buildRuns = 2 /\ uuidCount > 0

\* C10: a build whose embedding calls all return the right number of vectors
\* makes exactly ceil(N/B) embedding calls, each for 1..B chunks, and as many
\* upserts; while it loops, idx is B times the number of calls made, capped at
\* N; at the end the collection holds, for each position p in 0..N-1, exactly
\* one document with chunk_index p, and it carries the text of chunk p and the
\* vector returned for it; the ids are distinct and none was in use before.
C10_BatchLoop ==
  script = "build" =>
     /\ pc = "b_loop" =>
          /\ idx = Min(Len(dataset), batchSize * Count(log, "embed"))
          /\ Count(log, "add") = Count(log, "embed")
     /\ \A i \in 1..Len(log) : log[i].op = "embed" => log[i].n \in 1..batchSize
     /\ status = "finished" =>
          LET N == Len(dataset) IN
            /\ Count(log, "embed") = Ceil(N, batchSize)
            /\ Count(log, "add") = Ceil(N, batchSize)
            /\ Cardinality(coll) = N
            /\ {d.meta.chunk_index : d \in coll} = 0..(N - 1)
            /\ \A d \in coll :
                 LET p == d.meta.chunk_index IN
                   /\ d.text = dataset[p + 1]
                   /\ d.emb = <<(p \div batchSize) + 1, (p % batchSize) + 1>>
            /\ Cardinality(Ids(coll)) = N
            /\ Ids(coll) \cap Ids(prevColl) = {}
            /\ Ids(coll) = runIds

C10_Witness ==
  /\ script = "build" /\ status = "finished"
  /\ Len(dataset) = 3 /\ batchSize = 2 /\ Count(log, "embed") = 2
  /\ Cardinality(coll) = 3 /\ prevColl # {}

C10_WitnessEmpty ==
  script = "build" /\ status = "finished" /\ Len(dataset) = 0 /\ Count(log, "embed") = 0

====
